---- MODULE Spec2Model ----
(***************************************************************************)
(* A model of the act420 autograder: the execution controller              *)
(* (src/src/notebook_exec.py), the deterministic criterion evaluator       *)
(* (src/src/grader.py), the delegated section grader                       *)
(* (src/src/llm_grader.py), the segmenter (src/src/segmentor.py), the      *)
(* rubric loader (src/src/rubric_schema.py) and the tabs of src/app.py.    *)
(***************************************************************************)
EXTENDS Integers, Sequences, FiniteSets, TLC

\* ------------------------------------------------------------------ bounds
\* The longest notebook (in cells) a call is given.
MaxCells == 2
\* The largest probe set a call is given (probe ids are 1..MaxProbes).
MaxProbes == 2

VARIABLES
    pc,         \* position of the one call of run_ipynb_bytes
    opts,       \* its arguments: retry_on_timeout, skip_tags, probes
    workdir,    \* the directory made by tempfile.mkdtemp: "none", "held", "released"
    heap,       \* the notebook objects of the call (a sequence; an object's id is its index)
    nb_to_run,  \* id of the object bound to nb_to_run (0: unbound)
    marker,     \* TRUE once marker is bound to the sentinel, FALSE while it is None
    executed,   \* id of the object bound to executed (0: unbound)
    hd,         \* index of the run that html and dur were taken from (0: unbound)
    errs,       \* the list bound to errs
    runs,       \* history: kind, timeout factor and outcome of each call of _run_once
    last,       \* the latest call of _run_once: the notebook handed to it, captured errors
    exc,        \* the exception propagating out of the try block ("none": none)
    result,     \* the ExecResult built by the return statement (set: FALSE before it)
    rmtree      \* shutil.rmtree(workdir) in the finally clause: "not_called", "ok", "failed"

execVars == <<pc, opts, workdir, heap, nb_to_run, marker, executed, hd, errs, runs, last, exc, result,
              rmtree>>

VARIABLES
    gpc,        \* position of the one call of evaluate: "idle", "scoring", "done"
    smax,       \* float(sec.get("points", 0)) of the section being evaluated
    rows,       \* the rows built so far: score and max of each criterion
    earned,     \* the running sum of the scores
    section,    \* the section record appended to out["sections"]
    total,      \* out["total"]
    gspans      \* the section ids in the spans of the subject whose probe results
                \* are evaluated (evaluate is not handed them)

gradeVars == <<gpc, smax, rows, earned, section, total, gspans>>

VARIABLES
    cur         \* the latest application of _score_one: its arguments and its result

scoreVars == <<cur>>

VARIABLES
    lpc,        \* position of the one call of grade_section_llm
    lreq,       \* its request: section_id, the rubric slice, raw_criteria, total_max
    content,    \* resp.choices[0].message.content, as the service returned it
    lexc,       \* the exception the call raised ("none": none)
    grade       \* the dict the call returned

llmVars == <<lpc, lreq, content, lexc, grade>>

VARIABLES
    spc,        \* position of the one call of split_sections
    snb,        \* the notebook handed to it
    srubric,    \* TRUE when the call passes the keyword argument rubric
    sres,       \* the dict it returned
    sexc        \* the exception the call raised ("none": none)

segVars == <<spc, snb, srubric, sres, sexc>>

VARIABLES
    apc,          \* position of the script of app.py in tab_grade and tab_reports
    executions,   \* session state: student -> the keys of info["sections"]
    gi,           \* the student the grading loop is at
    gj,           \* the rubric section the inner loop is at
    per_sections, \* the grades collected for the student so far
    llm_results,  \* session state: student -> sections and total
    overrides,    \* session state: <<student, section_id>> -> score
    report,       \* what the last script run showed: tot_override and the rows
    aexc,         \* the exception that ended the script run ("none": none)
    regraded,     \* TRUE once the grade button was pressed a second time
    entered       \* history: the override keys whose widget the grader typed into

appVars == <<apc, executions, gi, gj, per_sections, llm_results, overrides, report, aexc,
             regraded, entered>>

VARIABLES
    rubric,     \* st.session_state["rubric"]: set is FALSE while it is the initial {}
    rlast       \* how the latest upload ended: "none", "loaded", "rejected"

rubricVars == <<rubric, rlast>>

VARIABLES
    rpc,        \* position of the loop of "Run all mapped notebooks"
    items,      \* list(mapping_df.to_dict(orient="records")), with bool(files_buf.get(fn))
    ri,         \* index of the item the loop is at
    rexc        \* the exception that ended the script run ("none": none)

runVars == <<rpc, items, ri, rexc>>

vars == <<execVars, gradeVars, scoreVars, llmVars, segVars, appVars, rubricVars, runVars>>

notExec == <<gradeVars, scoreVars, llmVars, segVars, appVars, rubricVars, runVars>>
notGrade == <<execVars, scoreVars, llmVars, segVars, appVars, rubricVars, runVars>>
notScore == <<execVars, gradeVars, llmVars, segVars, appVars, rubricVars, runVars>>
notLLM == <<execVars, gradeVars, scoreVars, segVars, appVars, rubricVars, runVars>>
notSeg == <<execVars, gradeVars, scoreVars, llmVars, appVars, rubricVars, runVars>>
notApp == <<execVars, gradeVars, scoreVars, llmVars, segVars, rubricVars, runVars>>
notRubric == <<execVars, gradeVars, scoreVars, llmVars, segVars, appVars, runVars>>
notRun == <<execVars, gradeVars, scoreVars, llmVars, segVars, rubricVars,
            apc, gi, gj, per_sections, llm_results, overrides, report, aexc, regraded, entered>>

\* ------------------------------------------------------------ small helpers
EmptyMap == [k \in {} |-> "num"]

MaxOf(S) == CHOOSE x \in S : \A y \in S : y <= x

SeqsUpTo(S, n) == UNION {[1..m -> S] : m \in 0..n}

\* ------------------------------------------------------- errors (list[dict])
MNF == [ename |-> "ModuleNotFoundError", evalue |-> "No module named 'x'"]
MNFBare == [ename |-> "ModuleNotFoundError", evalue |-> ""]
RT == [ename |-> "ValueError", evalue |-> "boom"]
DumpsError == [ename |-> "TypeError", evalue |-> "Object of type set is not JSON serializable"]
RetryNotice == [ename |-> "CellTimeoutError", evalue |-> "Retried with 2x per-cell timeout"]

\* The error outputs the student's own cells can leave in one completed run.
ErrLists == {<< >>, <<RT, MNF>>, <<MNFBare, RT>>}

\* _MISSING_MOD_RE.search(evalue): the module name, "" when there is no match.
MissingModRe(evalue) == IF evalue = "No module named 'x'" THEN "x" ELSE ""

\* The scan of errs for the first ModuleNotFoundError whose message names a module.
RECURSIVE FindMissing(_)
FindMissing(es) ==
    IF es = << >> THEN ""
    ELSE LET e == Head(es) IN
         IF e.ename = "ModuleNotFoundError" /\ e.evalue # "" /\ MissingModRe(e.evalue) # ""
         THEN MissingModRe(e.evalue)
         ELSE FindMissing(Tail(es))

\* ------------------------------------------------------------ the probe cell
ProbeSets == {1..n : n \in 0..MaxProbes}

\* What eval(expr) does in the kernel: it yields a number, yields a set, or raises.
EvalKinds == {"num", "set", "raise"}

\* _safe_eval: the value, or {'__error__': str(e)} when eval raised.
SafeEval(e) == IF e = "raise" THEN "error_marker" ELSE e

\* for k, expr in _probes.items(): _out[k] = _safe_eval(expr)
ProbeOut(probes, evals) == [k \in probes |-> SafeEval(evals[k])]

\* json.dumps(_out) raises TypeError on a value json cannot encode.
JsonSerializable(out) == \A k \in DOMAIN out : out[k] # "set"

\* json.loads of what json.dumps wrote: a number and the error marker come back
\* as they were.
JsonLoads(out) == [k \in DOMAIN out |-> out[k]]

NoOutput == [t |-> "none", json |-> EmptyMap]
TextOutput == [t |-> "text", json |-> EmptyMap]
ErrorOutput == [t |-> "error", json |-> EmptyMap]
\* The stream output of a student's cell that prints the marker and a JSON
\* object of its own.
ForgedOutput == [t |-> "marked", json |-> [k \in {1} |-> "forged"]]

\* The outputs of the synthetic cell after it ran: the marked line, or the
\* TypeError of the print statement.
ProbeCellOutput(probes, evals) ==
    LET out == ProbeOut(probes, evals) IN
    IF JsonSerializable(out)
    THEN [t |-> "marked", json |-> JsonLoads(out)]
    ELSE ErrorOutput

ProbeCell == [kind |-> "probe", out |-> NoOutput]

\* nb.cells.append(cell): the object itself is changed.
AppendProbeCell(nb) == [nb EXCEPT !.cells = Append(@, ProbeCell)]

\* The payload of the last output that holds the marker and parses; {} otherwise.
ExtractProbeJson(nb) ==
    LET idx == {i \in 1..Len(nb.cells) : nb.cells[i].out.t = "marked"} IN
    IF idx = {} THEN EmptyMap ELSE nb.cells[MaxOf(idx)].out.json

\* ------------------------------------------------------------- notebooks
\* A loaded notebook: each cell "plain", "skip" when it carries a skip tag, or
\* "forge" when its source prints a line that begins with the marker (the
\* first cell only, followed by plain cells: every cell of the student comes
\* before the synthetic one).
Docs ==
    UNION {{[cells |-> [i \in 1..n |-> [kind |-> k[i], out |-> NoOutput]]] :
               k \in {f \in [1..n -> {"plain", "skip", "forge"}] :
                          \A i \in 2..n : /\ f[i] # "forge"
                                          /\ f[1] = "forge" => f[i] = "plain"}} :
           n \in 1..MaxCells}

\* skip_tags: "none" (None or []), "blank" (a list of blank strings only),
\* "skip" (a list naming the skip tag).
SkipTagValues == {"none", "blank", "skip"}

\* The cells _strip_tagged_cells keeps when it filters.
Filtered(nb, skip_tags) ==
    [cells |-> SelectSeq(nb.cells, LAMBDA c : ~(skip_tags = "skip" /\ c.kind = "skip"))]

\* nb_to_run = _strip_tagged_cells(base_nb, skip_tags), then the probe cell when
\* probes is non-empty. With no skip_tags the notebook itself is returned, so the
\* probe cell is appended to base_nb; otherwise to a copy (nbformat.from_dict).
BuildRunnable(h, skip_tags, probes) ==
    LET copy == skip_tags # "none"
        h1 == IF copy THEN Append(h, Filtered(h[1], skip_tags)) ELSE h
        id == IF copy THEN Len(h) + 1 ELSE 1
        h2 == IF probes # {} THEN [h1 EXCEPT ![id] = AppendProbeCell(@)] ELSE h1
    IN  [heap |-> h2, id |-> id]

\* ------------------------------------------------------------- _run_once
\* The outputs one executed cell is left with.
CellOut(c, probes, evals) ==
    IF c.kind = "probe" THEN ProbeCellOutput(probes, evals)
    ELSE IF c.kind = "forge" THEN ForgedOutput
    ELSE TextOutput

\* client.execute() on the object: cells before `upto` have run (outputs
\* replaced), cell `upto` was cleared when it started, later cells are as before.
ExecuteCells(nb, upto, probes, evals) ==
    [cells |-> [i \in 1..Len(nb.cells) |->
        IF i < upto THEN [nb.cells[i] EXCEPT !.out = CellOut(nb.cells[i], probes, evals)]
        ELSE IF i = upto THEN [nb.cells[i] EXCEPT !.out = NoOutput]
        ELSE nb.cells[i]]]

\* The error outputs of the probe cells, as _run_once collects them.
ProbeErrs(nb) ==
    LET bad == SelectSeq(nb.cells, LAMBDA c : c.kind = "probe" /\ c.out.t = "error")
    IN  [i \in 1..Len(bad) |-> DumpsError]

HasStudentCells(nb) == \E i \in 1..Len(nb.cells) : nb.cells[i].kind # "probe"

\* The exceptions client.execute() raises through _run_once.
RaiseKinds == {"CellTimeoutError", "DeadKernelError"}

EvalsFor(nb, k, probes) ==
    IF \E i \in 1..Len(nb.cells) : i < k /\ nb.cells[i].kind = "probe"
    THEN [probes -> EvalKinds]
    ELSE {[p \in probes |-> "num"]}

\* What one sandbox run of nb can do: complete (cells all run, the student's
\* cells leaving the error outputs serrs), or raise while cell k runs.
RunChoices(nb, probes) ==
    {[outcome |-> "ok", k |-> Len(nb.cells) + 1, serrs |-> s, evals |-> e] :
        s \in (IF HasStudentCells(nb) THEN ErrLists ELSE {<< >>}),
        e \in EvalsFor(nb, Len(nb.cells) + 1, probes)}
    \cup
    UNION {{[outcome |-> x, k |-> k, serrs |-> << >>, evals |-> e] :
                x \in RaiseKinds, e \in EvalsFor(nb, k, probes)} : k \in 1..Len(nb.cells)}

\* errs as _run_once returns it.
Captured(nbAfter, ch) == ch.serrs \o ProbeErrs(nbAfter)

RunRecord(kind, tf, ch) == [kind |-> kind, tf |-> tf, outcome |-> ch.outcome]

LastRun(nb, nbAfter, ch) ==
    [doc |-> nb, evals |-> ch.evals, after |-> nbAfter,
     captured |-> IF ch.outcome = "ok" THEN Captured(nbAfter, ch) ELSE << >>]

NoRun == [doc |-> [cells |-> << >>], evals |-> EmptyMap, after |-> [cells |-> << >>],
          captured |-> << >>]

\* --------------------------------------------------------- run_ipynb_bytes
NoResult == [set |-> FALSE, executed |-> [cells |-> << >>], hd |-> 0, errs |-> << >>,
             probe_results |-> EmptyMap]

InitExec ==
    /\ pc = "idle"
    /\ opts = [retry_on_timeout |-> FALSE, skip_tags |-> "none", probes |-> {}]
    /\ workdir = "none"
    /\ heap = << >>
    /\ nb_to_run = 0
    /\ marker = FALSE
    /\ executed = 0
    /\ hd = 0
    /\ errs = << >>
    /\ runs = << >>
    /\ last = NoRun
    /\ exc = "none"
    /\ result = NoResult
    /\ rmtree = "not_called"

\* (mutant) An exception leaves the function without passing the finally clause.
RaiseSkippingFinally(e) ==
    /\ exc' = e
    /\ pc' = "raised"

\* An exception leaves the try block: control goes to the finally clause.
Raise(e) ==
    /\ exc' = e
    /\ pc' = "finally"

\* workdir = tempfile.mkdtemp(...), with the arguments of the call.
Call ==
    /\ UNCHANGED notExec
    /\ pc = "idle"
    /\ \E r \in BOOLEAN, s \in SkipTagValues, p \in ProbeSets :
          opts' = [retry_on_timeout |-> r, skip_tags |-> s, probes |-> p]
    /\ workdir' = "held"
    /\ pc' = "extract"
    /\ UNCHANGED <<heap, nb_to_run, marker, executed, hd, errs, runs, last, exc, result, rmtree>>

\* if data_zip: extractall(workdir); a bad archive raises.
ExtractData ==
    /\ UNCHANGED notExec
    /\ pc = "extract"
    /\ \E z \in {"absent", "good", "bad"} :
          IF z = "bad" THEN Raise("BadZipFile") ELSE pc' = "reqs" /\ exc' = exc
    /\ UNCHANGED <<opts, workdir, heap, nb_to_run, marker, executed, hd, errs, runs, last, result, rmtree>>

\* if extra_requirements_txt: write it (may raise), pip install it (a failure
\* is swallowed); then ensure_baseline(), whose failures are swallowed too.
InstallRequirements ==
    /\ UNCHANGED notExec
    /\ pc = "reqs"
    /\ \E o \in {"absent", "installed", "pip_failed", "write_failed"} :
          IF o = "write_failed" THEN Raise("OSError") ELSE pc' = "load" /\ exc' = exc
    /\ UNCHANGED <<opts, workdir, heap, nb_to_run, marker, executed, hd, errs, runs, last, result, rmtree>>

\* base_nb = nbformat.reads(...); kernel_name = _ensure_kernel(...).
LoadNotebook ==
    /\ UNCHANGED notExec
    /\ pc = "load"
    /\ \/ /\ Raise("ParseError")
          /\ heap' = heap
       \/ /\ Raise("NoSuchKernel")
          /\ \E d \in Docs : heap' = <<d>>
       \/ /\ \E d \in Docs : heap' = <<d>>
          /\ pc' = "build"
          /\ exc' = exc
    /\ UNCHANGED <<opts, workdir, nb_to_run, marker, executed, hd, errs, runs, last, result, rmtree>>

\* nb_to_run = _strip_tagged_cells(...); if probes: append the probe cell.
Build ==
    /\ UNCHANGED notExec
    /\ pc = "build"
    /\ LET b == BuildRunnable(heap, opts.skip_tags, opts.probes) IN
          /\ heap' = b.heap
          /\ nb_to_run' = b.id
    /\ marker' = (opts.probes # {})
    /\ pc' = "first"
    /\ UNCHANGED <<opts, workdir, executed, hd, errs, runs, last, exc, result, rmtree>>

\* An object no name is bound to any more is dropped (base_nb is object 1).
Freed == [cells |-> << >>]
Collect(h, live) == [i \in 1..Len(h) |-> IF i \in live \cup {1} THEN h[i] ELSE Freed]

\* One call of _run_once on nb_to_run that returns: executed, html, dur, errs
\* are rebound (executed is the object that was run).
RunReturns(kind, tf, ch, extra, next) ==
    LET nb == heap[nb_to_run]
        after == ExecuteCells(nb, ch.k, opts.probes, ch.evals)
    IN  /\ heap' = Collect([heap EXCEPT ![nb_to_run] = after], {nb_to_run})
        /\ runs' = Append(runs, RunRecord(kind, tf, ch))
        /\ last' = LastRun(nb, after, ch)
        /\ executed' = nb_to_run
        /\ hd' = Len(runs) + 1
        /\ errs' = Captured(after, ch) \o extra
        /\ pc' = next

\* One call of _run_once on nb_to_run that raises: nothing is rebound.
RunRaises(kind, tf, ch) ==
    LET nb == heap[nb_to_run]
        after == ExecuteCells(nb, ch.k, opts.probes, ch.evals)
    IN  /\ heap' = [heap EXCEPT ![nb_to_run] = after]
        /\ runs' = Append(runs, RunRecord(kind, tf, ch))
        /\ last' = LastRun(nb, after, ch)

\* The first run, at timeout_per_cell.
FirstRun ==
    /\ UNCHANGED notExec
    /\ pc = "first"
    /\ \E ch \in RunChoices(heap[nb_to_run], opts.probes) :
          \/ /\ ch.outcome = "ok"
             /\ RunReturns("first", 1, ch, << >>, "scan")
             /\ exc' = exc
          \/ /\ ch.outcome = "CellTimeoutError"
             /\ opts.retry_on_timeout
             /\ RunRaises("first", 1, ch)
             /\ pc' = "retry"
             /\ UNCHANGED <<executed, hd, errs, exc>>
          \/ /\ ch.outcome = "CellTimeoutError"
             /\ ~opts.retry_on_timeout
             /\ RunRaises("first", 1, ch)
             /\ Raise(ch.outcome)
             /\ UNCHANGED <<executed, hd, errs>>
          \/ /\ ch.outcome = "DeadKernelError"
             /\ RunRaises("first", 1, ch)
             /\ Raise(ch.outcome)
             /\ UNCHANGED <<executed, hd, errs>>
    /\ UNCHANGED <<opts, workdir, nb_to_run, marker, result, rmtree>>

\* (mutant) A retry that raises is retried again.
RetryRaisesRetriesAgain(ch) ==
    /\ RunRaises("retry", 2, ch)
    /\ pc' = "retry"
    /\ UNCHANGED <<executed, hd, errs, exc>>

\* The retry raises: the exception is raised inside the except clause, so it
\* leaves the try block; nothing is rebound.
RetryRaises(ch) ==
    /\ RunRaises("retry", 2, ch)
    /\ Raise(ch.outcome)
    /\ UNCHANGED <<executed, hd, errs>>

\* except CellTimeoutError, retry_on_timeout: the same object run once more at
\* twice the timeout; the retry notice is appended to its errs.
RetryRun ==
    /\ UNCHANGED notExec
    /\ pc = "retry"
    /\ \E ch \in RunChoices(heap[nb_to_run], opts.probes) :
          \/ /\ ch.outcome = "ok"
             /\ RunReturns("retry", 2, ch, <<RetryNotice>>, "scan")
             /\ exc' = exc
          \/ /\ ch.outcome # "ok"
             /\ RetryRaises(ch)
    /\ UNCHANGED <<opts, workdir, nb_to_run, marker, result, rmtree>>

\* The scan of errs for a missing module.
ScanMissing ==
    /\ UNCHANGED notExec
    /\ pc = "scan"
    /\ pc' = IF FindMissing(errs) # "" THEN "install" ELSE "probes"
    /\ UNCHANGED <<opts, workdir, heap, nb_to_run, marker, executed, hd, errs, runs, last, exc, result,
                   rmtree>>

\* (mutant) ensure_package is called outside a try block: its exception leaves
\* the function.
InstallUnguarded ==
    /\ UNCHANGED notExec
    /\ pc = "install"
    /\ \/ /\ Raise("CalledProcessError")
          /\ UNCHANGED <<heap, nb_to_run, marker>>
       \/ /\ LET b == BuildRunnable(heap, opts.skip_tags, opts.probes) IN
                /\ heap' = b.heap
                /\ nb_to_run' = b.id
          /\ marker' = (opts.probes # {} \/ marker)
          /\ pc' = "rerun"
          /\ exc' = exc
    /\ UNCHANGED <<opts, workdir, executed, hd, errs, runs, last, result, rmtree>>

\* ensure_package(missing); when it returns, nb_to_run and marker are rebuilt
\* from base_nb. When it raises, the except clause swallows the exception.
Install ==
    /\ UNCHANGED notExec
    /\ pc = "install"
    /\ \/ /\ pc' = "probes"
          /\ UNCHANGED <<heap, nb_to_run, marker>>
       \/ /\ LET b == BuildRunnable(heap, opts.skip_tags, opts.probes) IN
                /\ heap' = b.heap
                /\ nb_to_run' = b.id
          /\ marker' = (opts.probes # {} \/ marker)
          /\ pc' = "rerun"
    /\ UNCHANGED <<opts, workdir, executed, hd, errs, runs, last, exc, result, rmtree>>

\* The rerun after the install, at timeout_per_cell. An exception of this run
\* is swallowed by the except clause: executed, html, dur, errs stay bound to
\* what they were.
Rerun ==
    /\ UNCHANGED notExec
    /\ pc = "rerun"
    /\ \E ch \in RunChoices(heap[nb_to_run], opts.probes) :
          \/ /\ ch.outcome = "ok"
             /\ RunReturns("rerun", 1, ch, << >>, "probes")
          \/ /\ ch.outcome # "ok"
             /\ RunRaises("rerun", 1, ch)
             /\ pc' = "probes"
             /\ UNCHANGED <<executed, hd, errs>>
    /\ UNCHANGED <<opts, workdir, nb_to_run, marker, exc, result, rmtree>>

\* probe_results = _extract_probe_json(executed, marker) if marker else {};
\* return ExecResult(executed, html, dur, errs, probe_results).
Return ==
    /\ UNCHANGED notExec
    /\ pc = "probes"
    /\ result' = [set |-> TRUE,
                  executed |-> heap[executed],
                  hd |-> hd,
                  errs |-> errs,
                  probe_results |-> IF marker THEN ExtractProbeJson(heap[executed])
                                    ELSE EmptyMap]
    /\ pc' = "finally"
    /\ UNCHANGED <<opts, workdir, heap, nb_to_run, marker, executed, hd, errs, runs, last, exc, rmtree>>

\* finally: shutil.rmtree(workdir), an exception of which is swallowed; then
\* the call returns its result or the exception goes on to the caller.
Finally ==
    /\ UNCHANGED notExec
    /\ pc = "finally"
    /\ \/ /\ rmtree' = "ok"
          /\ workdir' = "released"
       \/ /\ rmtree' = "failed"
          /\ workdir' = workdir
    /\ pc' = IF exc = "none" THEN "returned" ELSE "raised"
    /\ UNCHANGED <<opts, heap, nb_to_run, marker, executed, hd, errs, runs, last, exc, result>>

NextExec ==
    \/ Call
    \/ ExtractData
    \/ InstallRequirements
    \/ LoadNotebook
    \/ Build
    \/ FirstRun
    \/ RetryRun
    \/ ScanMissing
    \/ Install
    \/ Rerun
    \/ Return
    \/ Finally

\* ------------------------------------------------ grader.py: _score_one
\* Points are counted in thousandths of a point, so 2000 is 2.0 and 9 is 0.009.

Max2(a, b) == IF a >= b THEN a ELSE b
Min2(a, b) == IF a <= b THEN a ELSE b

\* round(num / den, 2) in thousandths: the nearest multiple of 10. At an exact
\* decimal tie the float's binary value decides; tieUp says which way it fell.
Round2(num, den, tieUp) ==
    LET q == num \div (10 * den)
        r == num - q * (10 * den)
    IN  IF 2 * r < 10 * den THEN 10 * q
        ELSE IF 2 * r > 10 * den THEN 10 * (q + 1)
        ELSE IF tieUp THEN 10 * (q + 1) ELSE 10 * q

Names == {"a", "b", "c"}

\* An optional argument: args.get(key) is None when it is absent.
None == [some |-> FALSE, v |-> 0]
Some(v) == [some |-> TRUE, v |-> v]

\* Probe values: a missing entry (None), a number, a list of names, the error
\* marker {'__error__': ...}, a 2-element sequence.
NonePV == [t |-> "none", n |-> 0, m |-> 0, items |-> {}]
NumPV(n) == [t |-> "num", n |-> n, m |-> 0, items |-> {}]
ListPV(S) == [t |-> "list", n |-> 0, m |-> 0, items |-> S]
ErrPV == [t |-> "error_marker", n |-> 0, m |-> 0, items |-> {}]
PairPV(r, c) == [t |-> "pair", n |-> r, m |-> c, items |-> {}]

ProbeValues ==
    {NonePV, ErrPV} \cup {NumPV(n) : n \in 0..3} \cup {ListPV(S) : S \in SUBSET Names}
    \cup {PairPV(1, 2), PairPV(2, 2)}

DefaultArgs == [required |-> {}, op |-> ">=", value |-> 0, lo |-> None, hi |-> None,
                rows |-> None, cols |-> None]

\* A justification: the literal text of the f-string up to its first
\* interpolation, the list of missing columns and the kind it names, if any.
Note(tag) == [tag |-> tag, missing |-> {}, kind |-> ""]

\* (mutant) The strict comparisons admit equality.
OpHoldsLoose(op, x, value) ==
    \/ (op \in {">=", ">"} /\ x >= value)
    \/ (op = "==" /\ x = value)
    \/ (op \in {"<=", "<"} /\ x <= value)

\* The op comparison of row_count; FALSE for an op that is none of the five.
OpHolds(op, x, value) ==
    \/ (op = ">=" /\ x >= value)
    \/ (op = ">" /\ x > value)
    \/ (op = "==" /\ x = value)
    \/ (op = "<=" /\ x <= value)
    \/ (op = "<" /\ x < value)

\* (mutant) The lower bound is exclusive.
InRangeStrict(x, lo, hi) == (~lo.some \/ x > lo.v) /\ (~hi.some \/ x <= hi.v)

\* ok = (lo is None or probe_val >= lo) and (hi is None or probe_val <= hi)
InRange(x, lo, hi) == (~lo.some \/ x >= lo.v) /\ (~hi.some \/ x <= hi.v)

\* (mutant) The partial credit is cut to two decimals, not rounded.
ColumnsPartialTruncated(cmax, have, n, tieUp) == 10 * ((cmax * have) \div (10 * Max2(1, n)))

\* score = round(cmax * have / max(1, len(required)), 2)
ColumnsPartial(cmax, have, n, tieUp) == Round2(cmax * have, Max2(1, n), tieUp)

\* The range rule shared by stat_range, unique_count and null_rate.
RangeScore(args, cmax, pv, tag) ==
    IF pv.t = "error_marker" THEN [score |-> 0, note |-> Note("expr error: ")]
    ELSE IF pv.t # "num"
         THEN [score |-> 0, note |-> Note("probe failed: expected number, got ")]
    ELSE [score |-> IF InRange(pv.n, args.lo, args.hi) THEN cmax ELSE 0, note |-> Note(tag)]

\* (mutant) The fall-through gives no justification.
UnknownTypeSilent(typ) == [score |-> 0, note |-> Note("")]

\* return 0.0, f"Unknown type: {typ}"
UnknownType(typ) == [score |-> 0, note |-> [Note("Unknown type: ") EXCEPT !.kind = typ]]

\* isinstance(probe_val, (list, tuple)) and len(probe_val) == 2: a pair of
\* numbers, or a list of two names (which equals no wanted count).
IsTwoSequence(pv) == pv.t = "pair" \/ (pv.t = "list" /\ Cardinality(pv.items) = 2)

\* _score_one(typ, args, cmax, probe_val) -> (score, note)
ScoreOne(typ, args, cmax, pv, tieUp) ==
    CASE typ = "columns" ->
            IF pv.t # "list"
            THEN [score |-> 0, note |-> Note("probe failed: expected list of columns, got ")]
            ELSE LET missing == args.required \ pv.items
                     have == Cardinality(args.required) - Cardinality(missing)
                 IN  IF missing = {}
                     THEN [score |-> cmax, note |-> Note("All required columns present.")]
                     ELSE [score |-> ColumnsPartial(cmax, have, Cardinality(args.required), tieUp),
                           note |-> [Note("Missing columns: ") EXCEPT !.missing = missing]]
      [] typ = "row_count" ->
            IF pv.t # "num"
            THEN [score |-> 0, note |-> Note("probe failed: expected number, got ")]
            ELSE [score |-> IF OpHolds(args.op, pv.n, args.value) THEN cmax ELSE 0,
                  note |-> Note("Row count ")]
      [] typ = "stat_range" -> RangeScore(args, cmax, pv, "value=")
      [] typ = "unique_count" -> RangeScore(args, cmax, pv, "unique_count=")
      [] typ = "null_rate" -> RangeScore(args, cmax, pv, "null_rate=")
      [] typ = "table_shape" ->
            IF ~IsTwoSequence(pv)
            THEN [score |-> 0, note |-> Note("probe failed: expected (rows, cols), got ")]
            ELSE [score |-> IF /\ (~args.rows.some \/ (pv.t = "pair" /\ pv.n = args.rows.v))
                               /\ (~args.cols.some \/ (pv.t = "pair" /\ pv.m = args.cols.v))
                            THEN cmax ELSE 0,
                  note |-> Note("shape=")]
      [] typ = "figure_exists" ->
            [score |-> 0,
             note |-> Note("figure_exists check not implemented yet (will use HTML scan).")]
      [] typ = "llm_feedback" -> [score |-> 0, note |-> Note("LLM feedback pending.")]
      [] OTHER -> UnknownType(typ)

\* ------------------------------------------------- grader.py: evaluate
\* The criteria a rubric can hold (max in thousandths; the rubric schema allows
\* any number >= 0).
CMaxValues == {0, 9, 4000}
SMaxValues == {0, 9, 3000}
Opts(S) == {None} \cup {Some(v) : v \in S}

Criteria ==
    {[typ |-> "columns", args |-> [DefaultArgs EXCEPT !.required = R], max |-> m] :
        R \in SUBSET Names, m \in CMaxValues}
    \cup {[typ |-> "row_count", args |-> [DefaultArgs EXCEPT !.op = o, !.value = v], max |-> m] :
        o \in {">=", ">", "==", "<=", "<", "!="}, v \in {2}, m \in CMaxValues}
    \cup {[typ |-> t, args |-> [DefaultArgs EXCEPT !.lo = l, !.hi = h], max |-> m] :
        t \in {"stat_range", "unique_count", "null_rate"},
        l \in Opts({1}), h \in Opts({2}), m \in CMaxValues}
    \cup {[typ |-> "table_shape", args |-> [DefaultArgs EXCEPT !.rows = r, !.cols = c], max |-> m] :
        r \in Opts({1}), c \in Opts({2}), m \in CMaxValues}
    \cup {[typ |-> t, args |-> DefaultArgs, max |-> m] :
        t \in {"figure_exists", "llm_feedback", "essay", "delegated"}, m \in CMaxValues}

RECURSIVE SumMax(_)
SumMax(rs) == IF rs = << >> THEN 0 ELSE Head(rs).max + SumMax(Tail(rs))

RECURSIVE SumScore(_)
SumScore(rs) == IF rs = << >> THEN 0 ELSE Head(rs).score + SumScore(Tail(rs))

NoCur == [typ |-> "", args |-> DefaultArgs, max |-> 0, pv |-> NonePV, score |-> 0,
          note |-> Note("")]
NoSection == [set |-> FALSE, id |-> "", max |-> 0, earned |-> 0, rows |-> << >>]

\* The ids a rubric section can carry.
SectionIds == {"Q1", "Q2"}

\* The longest criteria list of the section evaluated.
MaxCriteria == 2

InitGrade ==
    /\ gpc = "idle"
    /\ smax = 0
    /\ rows = << >>
    /\ earned = 0
    /\ section = NoSection
    /\ total = [max |-> 0, earned |-> 0]
    /\ gspans = {}

\* for sec in rubric["sections"]: sid = sec["id"];
\* smax = float(sec.get("points", 0)); rows = []; earned = 0.0
EvaluateSection ==
    /\ gpc = "idle"
    /\ \E p \in SMaxValues : smax' = p
    /\ \E sid \in SectionIds : section' = [NoSection EXCEPT !.id = sid]
    /\ \E detected \in SUBSET SectionIds : gspans' = detected
    /\ rows' = << >>
    /\ earned' = 0
    /\ gpc' = "scoring"
    /\ UNCHANGED total
    /\ UNCHANGED notGrade

\* Whether round() can meet an exact decimal tie for these arguments.
TieChoices(r, pv) ==
    IF r.typ = "columns" /\ pv.t = "list" THEN BOOLEAN ELSE {FALSE}

\* for r in sec["criteria"]: the next criterion is scored against its probe
\* value and its row is appended.
ScoreCriterion ==
    /\ gpc = "scoring"
    /\ Len(rows) < MaxCriteria
    /\ \E r \in Criteria, pv \in ProbeValues :
          \E tieUp \in TieChoices(r, pv) :
             LET res == ScoreOne(r.typ, r.args, r.max, pv, tieUp) IN
                /\ rows' = Append(rows, [score |-> res.score, max |-> r.max])
                /\ earned' = earned + res.score
    /\ UNCHANGED <<gpc, smax, section, total, gspans>>
    /\ UNCHANGED notGrade

\* if smax > 0: earned = min(earned, smax)
Capped(e, cap) == IF cap > 0 THEN Min2(e, cap) ELSE e

\* The criteria are exhausted: the cap is applied, the section is appended
\* with max = smax or sum(r["max"] for r in rows), and both are added to
\* out["total"].
FinishSection ==
    /\ gpc = "scoring"
    /\ section' = [set |-> TRUE,
                   id |-> section.id,
                   max |-> IF smax # 0 THEN smax ELSE SumMax(rows),
                   earned |-> Capped(earned, smax),
                   rows |-> rows]
    /\ total' = [max |-> total.max + (IF smax # 0 THEN smax ELSE SumMax(rows)),
                 earned |-> total.earned + Capped(earned, smax)]
    /\ earned' = Capped(earned, smax)
    /\ gpc' = "done"
    /\ UNCHANGED <<smax, rows, gspans>>
    /\ UNCHANGED notGrade

NextGrade ==
    \/ EvaluateSection
    \/ ScoreCriterion
    \/ FinishSection

\* One call of _score_one on arguments of its own (a pure function).
InitScore == cur = NoCur

ScoreOneCall ==
    /\ cur = NoCur
    /\ \E r \in Criteria, pv \in ProbeValues :
          \E tieUp \in TieChoices(r, pv) :
             LET res == ScoreOne(r.typ, r.args, r.max, pv, tieUp) IN
                cur' = [typ |-> r.typ, args |-> r.args, max |-> r.max, pv |-> pv,
                        score |-> res.score, note |-> res.note]
    /\ UNCHANGED notScore

NextScore == ScoreOneCall

\* ------------------------------------------- llm_grader.py: grade_section_llm
\* The rubric the call is given: one section Q1 titled T1 with criteria c1
\* (max 2.0) and c2 (max 1.0); its points are drawn per call.
RubricCriteria == <<[id |-> "c1", max |-> 2000], [id |-> "c2", max |-> 1000]>>
RubricSection(points) == [id |-> "Q1", title |-> "T1", points |-> points,
                          criteria |-> RubricCriteria]

\* _rubric_slice: the section whose id or title is section_id, else an empty
\* section of 0 points.
RubricSlice(rsec, section_id) ==
    IF rsec.id = section_id \/ rsec.title = section_id THEN rsec
    ELSE [id |-> section_id, title |-> section_id, points |-> 0, criteria |-> << >>]

\* raw_criteria: criterion_id and max_points of each criterion of the slice.
RawCriteria(rsec) ==
    [i \in 1..Len(rsec.criteria) |->
        [criterion_id |-> rsec.criteria[i].id, max_points |-> rsec.criteria[i].max]]

RECURSIVE SumMaxPoints(_)
SumMaxPoints(cs) == IF cs = << >> THEN 0 ELSE Head(cs).max_points + SumMaxPoints(Tail(cs))

\* total_max = float(rsec.get("points", 0.0) or sum(c["max_points"] ...))
TotalMax(rsec) == IF rsec.points # 0 THEN rsec.points ELSE SumMaxPoints(RawCriteria(rsec))

\* The longest criteria list of a service response.
MaxRespCriteria == 2

\* One criterion of a response: the id it names, its score (a number, absent,
\* or a string that is no number) and the max_points it echoes.
RespScores == {[k |-> "num", v |-> -1000], [k |-> "num", v |-> 1500], [k |-> "num", v |-> 5000],
               [k |-> "missing", v |-> 0], [k |-> "text", v |-> 0]}
RespItems == [criterion_id : {"c1", "zz"}, score : RespScores, max_points : {0, 99000}]

\* What the service can return as message.content: None, the empty string,
\* text that is not JSON, a JSON array, or a JSON object (an absent key is ""
\* for section_id and overall_comment and the empty list for criteria).
NoContent == [kind |-> "None", section_id |-> "", criteria |-> << >>, overall_comment |-> ""]
Contents ==
    {[NoContent EXCEPT !.kind = k] : k \in {"None", "empty", "garbage", "array"}}
    \cup [kind : {"object"}, section_id : {"", "Q1", "Q7"},
          criteria : SeqsUpTo(RespItems, MaxRespCriteria),
          overall_comment : {"", "good"}]

\* raw = content or "{}": None and the empty string are read as the object {}.
RawOf(c) == IF c.kind \in {"None", "empty"} THEN [NoContent EXCEPT !.kind = "object"] ELSE c

ParseFailureNote == "Model returned invalid JSON."

\* The fallback of the except clause around json.loads.
Fallback(section_id) ==
    [kind |-> "object", section_id |-> section_id, criteria |-> << >>,
     overall_comment |-> ParseFailureNote]

\* parsed = json.loads(raw), or the fallback when that raises.
Parsed(c, section_id) ==
    LET raw == RawOf(c) IN IF raw.kind = "garbage" THEN Fallback(section_id) ELSE raw

\* max_by_id.get(cid, 0.0)
MaxById(raw_criteria, cid) ==
    LET idx == {i \in 1..Len(raw_criteria) : raw_criteria[i].criterion_id = cid} IN
    IF idx = {} THEN 0 ELSE raw_criteria[MaxOf(idx)].max_points

\* float(c.get("score", 0.0))
ScoreFloat(sc) == IF sc.k = "num" THEN sc.v ELSE 0

\* One cleaned criterion: max from the rubric, score clamped into 0..max.
Cleaned(raw_criteria, c) ==
    LET max_points == MaxById(raw_criteria, c.criterion_id) IN
    [criterion_id |-> c.criterion_id,
     max |-> max_points,
     score |-> Max2(0, Min2(ScoreFloat(c.score), max_points))]

\* Whether the clean-up loop raises: parsed is no object (parsed.get), or a
\* score is a string float() rejects.
CleanRaises(parsed) ==
    \/ parsed.kind # "object"
    \/ \E i \in 1..Len(parsed.criteria) : parsed.criteria[i].score.k = "text"

NoRequest == [section_id |-> "", rsec |-> RubricSlice(RubricSection(0), ""),
              raw_criteria |-> << >>, total_max |-> 0]
NoGrade == [set |-> FALSE, section_id |-> "", total_points |-> 0, earned_points |-> 0,
            criteria |-> << >>, overall_comment |-> ""]

InitLLM ==
    /\ lpc = "idle"
    /\ lreq = NoRequest
    /\ content = NoContent
    /\ lexc = "none"
    /\ grade = NoGrade

\* rsec = _rubric_slice(...); raw_criteria; total_max.
GradeSectionStart ==
    /\ lpc = "idle"
    /\ \E points \in {0, 2000}, section_id \in {"Q1", "T1", "Q9"} :
          LET rsec == RubricSlice(RubricSection(points), section_id) IN
             lreq' = [section_id |-> section_id, rsec |-> rsec,
                      raw_criteria |-> RawCriteria(rsec), total_max |-> TotalMax(rsec)]
    /\ lpc' = "call"
    /\ UNCHANGED <<content, lexc, grade>>
    /\ UNCHANGED notLLM

\* resp = client.chat.completions.create(...): it returns, or it raises (a
\* timeout, an API error); the call is in no try block.
ServiceCall ==
    /\ lpc = "call"
    /\ \/ /\ \E c \in Contents : content' = c
          /\ lpc' = "clean"
          /\ lexc' = lexc
       \/ /\ lexc' = "APIError"
          /\ lpc' = "raised"
          /\ content' = content
    /\ UNCHANGED <<lreq, grade>>
    /\ UNCHANGED notLLM

\* json.loads with its fallback, the clean-up loop, the clamp to the section
\* total and the return.
CleanAndReturn ==
    /\ lpc = "clean"
    /\ LET parsed == Parsed(content, lreq.section_id) IN
          IF CleanRaises(parsed)
          THEN /\ lexc' = "ValueError"
               /\ lpc' = "raised"
               /\ grade' = grade
          ELSE LET cleaned == [i \in 1..Len(parsed.criteria) |->
                                  Cleaned(lreq.raw_criteria, parsed.criteria[i])]
                   earned_sum == SumScore(cleaned)
               IN  /\ grade' = [set |-> TRUE,
                                section_id |-> IF parsed.section_id # "" THEN parsed.section_id
                                               ELSE IF lreq.section_id # "" THEN lreq.section_id
                                               ELSE "Unknown",
                                total_points |-> lreq.total_max,
                                earned_points |-> Max2(0, Min2(earned_sum, lreq.total_max)),
                                criteria |-> cleaned,
                                overall_comment |-> parsed.overall_comment]
                   /\ lpc' = "returned"
                   /\ lexc' = lexc
    /\ UNCHANGED <<lreq, content>>
    /\ UNCHANGED notLLM

NextLLM ==
    \/ GradeSectionStart
    \/ ServiceCall
    \/ CleanAndReturn

\* ------------------------------------------------ segmentor.py: split_sections
\* The longest notebook handed to split_sections.
MaxSegCells == 3

\* The text of a cell, as far as the two patterns read it: the digits after
\* Q/Question of its one marker ("none": no marker), the line the marker
\* stands on (1: the first line of the stripped source) and its form: "hash"
\* for a line such as "# Q1 ...", "bare" for a line that starts with "Q1".
NoText == [digits |-> "none", line |-> 1, form |-> "bare"]
CellTexts ==
    {NoText} \cup {[digits |-> d, line |-> 1, form |-> "hash"] : d \in {"0", "1", "2", "01"}}
    \cup {[digits |-> d, line |-> 1, form |-> "bare"] : d \in {"1", "2"}}
    \cup {[digits |-> "1", line |-> 2, form |-> f] : f \in {"hash", "bare"}}

SegCells ==
    {[cell_type |-> t, text |-> x] : t \in {"markdown", "code"}, x \in CellTexts}
    \cup {[cell_type |-> "raw", text |-> NoText]}

SegDocs == UNION {[1..n -> SegCells] : n \in 0..MaxSegCells}

\* int(m.group("num"))
IntOf(digits) ==
    CASE digits = "0" -> 0
      [] digits = "1" -> 1
      [] digits = "01" -> 1
      [] digits = "2" -> 2

\* f"Q{num}"
QId(num) == CASE num = 0 -> "Q0" [] num = 1 -> "Q1" [] num = 2 -> "Q2"

\* line0.lstrip("#").strip(): the heading line as written.
HeadingTitle(digits) ==
    CASE digits = "0" -> "Q0" [] digits = "1" -> "Q1" [] digits = "01" -> "Q01"
      [] digits = "2" -> "Q2"

\* _cell_has_q_mark: _Q_HDR_RE (heading marks optional) is searched in the
\* first line only. -1: None.
CellHasQMark(cell) ==
    IF cell.text.digits # "none" /\ cell.text.line = 1 THEN IntOf(cell.text.digits) ELSE -1

\* _cell_has_q_comment: _Q_CODE_RE (MULTILINE) is searched in the whole source.
\* Under re.VERBOSE the unescaped # of the pattern starts a comment, so the
\* pattern is ^\s* followed by Q/Question and the number: it matches a line
\* that starts with Q<n> and no line that starts with "# Q<n>".
CellHasQComment(cell) ==
    IF cell.text.digits # "none" /\ cell.text.form = "bare"
    THEN IntOf(cell.text.digits) ELSE -1

\* if num: a boundary is recorded for a number that is neither None nor 0.
IsBoundary(cell) ==
    \/ cell.cell_type = "markdown" /\ CellHasQMark(cell) > 0
    \/ cell.cell_type = "code" /\ CellHasQComment(cell) > 0

\* The tuple (cell_idx, qid, title) appended for the cell at 0-based index i.
BoundaryOf(nb, i) ==
    LET cell == nb[i + 1] IN
    IF cell.cell_type = "markdown"
    THEN [idx |-> i, qid |-> QId(CellHasQMark(cell)), title |-> HeadingTitle(cell.text.digits)]
    ELSE [idx |-> i, qid |-> QId(CellHasQComment(cell)), title |-> QId(CellHasQComment(cell))]

\* boundaries: the tuples of the marked cells, in the order of the cells.
RECURSIVE Boundaries(_, _)
Boundaries(nb, i) ==
    IF i >= Len(nb) THEN << >>
    ELSE IF IsBoundary(nb[i + 1]) THEN <<BoundaryOf(nb, i)>> \o Boundaries(nb, i + 1)
    ELSE Boundaries(nb, i + 1)

\* deduped: a tuple is dropped when its cell index (tup[0]) was seen before.
RECURSIVE Deduped(_, _)
Deduped(bs, seen) ==
    IF bs = << >> THEN << >>
    ELSE IF Head(bs).idx \in seen THEN Deduped(Tail(bs), seen)
    ELSE <<Head(bs)>> \o Deduped(Tail(bs), seen \cup {Head(bs).idx})

\* deduped.sort(key=lambda x: x[0]): insertion into a list ordered by index
\* (stable: an equal index stays behind the ones already there).
RECURSIVE InsertByIdx(_, _)
InsertByIdx(sorted, b) ==
    IF sorted = << >> THEN <<b>>
    ELSE IF b.idx < Head(sorted).idx THEN <<b>> \o sorted
    ELSE <<Head(sorted)>> \o InsertByIdx(Tail(sorted), b)

RECURSIVE SortByIdx(_)
SortByIdx(bs) ==
    IF bs = << >> THEN << >>
    ELSE InsertByIdx(SortByIdx(SubSeq(bs, 1, Len(bs) - 1)), bs[Len(bs)])

NoSpans == [q \in {} |-> [title |-> "", start |-> 0, end |-> 0, cell_idxs |-> << >>]]
EmptyResult == [order |-> << >>, spans |-> NoSpans]

\* The loop that builds the spans: out[qid] = {...} replaces an entry already
\* stored under qid; out["_order"].append(qid) always appends.
RECURSIVE BuildSpans(_, _, _, _)
BuildSpans(deduped, idx, out, ncells) ==
    IF idx > Len(deduped) THEN out
    ELSE LET start_idx == deduped[idx].idx
             end_idx == IF idx + 1 <= Len(deduped) THEN deduped[idx + 1].idx - 1
                        ELSE ncells - 1
             span == [title |-> deduped[idx].title, start |-> start_idx, end |-> end_idx,
                      cell_idxs |-> [k \in 1..(end_idx - start_idx + 1) |-> start_idx + k - 1]]
         IN  BuildSpans(deduped, idx + 1,
                        [order |-> Append(out.order, deduped[idx].qid),
                         spans |-> (deduped[idx].qid :> span) @@ out.spans],
                        ncells)

\* split_sections(nb): {} when no boundary was found.
SplitSectionsOf(nb) ==
    LET boundaries == Boundaries(nb, 0) IN
    IF boundaries = << >> THEN EmptyResult
    ELSE BuildSpans(SortByIdx(Deduped(boundaries, {})), 1, EmptyResult, Len(nb))

InitSeg ==
    /\ spc = "idle"
    /\ snb = << >>
    /\ srubric = FALSE
    /\ sres = EmptyResult
    /\ sexc = "none"

\* split_sections(nb)
SplitSections ==
    /\ spc = "idle"
    /\ \E nb \in SegDocs :
          /\ snb' = nb
          /\ sres' = SplitSectionsOf(nb)
    /\ srubric' = FALSE
    /\ spc' = "returned"
    /\ sexc' = sexc
    /\ UNCHANGED notSeg

\* split_sections(res.executed_nb, rubric=...), the call of tab_run: the
\* function has no parameter rubric, so the call raises TypeError before its
\* body runs.
SplitSectionsWithRubric ==
    /\ spc = "idle"
    /\ \E nb \in SegDocs : snb' = nb
    /\ srubric' = TRUE
    /\ sexc' = "TypeError"
    /\ spc' = "raised"
    /\ sres' = sres
    /\ UNCHANGED notSeg

NextSeg ==
    \/ SplitSections
    \/ SplitSectionsWithRubric

\* ------------------------------------------- app.py: tab_grade and tab_reports
\* The number of students in executions.
MaxStudents == 2
Students == 1..MaxStudents

\* The rubric of the session, as far as the loops read it: the id of each
\* section and the total_points grade_section_llm reports for it.
AppRubric == <<[id |-> "Q1", total |-> 10000], [id |-> "Q2", total |-> 5000]>>
AppIds == {AppRubric[j].id : j \in 1..Len(AppRubric)}

\* The dicts grade_section_llm can return for a rubric section: earned_points
\* within its total, section_id the id asked for or the one the service echoed.
\* (An echo equal to another section's id would give two override widgets one
\* key; it is not drawn.)
GradedChoices(sec) ==
    IF sec.id = "Q1"
    THEN {[section_id |-> "Q1", total_points |-> sec.total, earned_points |-> e] :
             e \in {4000, 6000}}
    ELSE {[section_id |-> e, total_points |-> sec.total, earned_points |-> sec.total] :
             e \in {sec.id, "Q7"}}

RECURSIVE SumField(_, _)
SumField(secs, f) == IF secs = << >> THEN 0 ELSE Head(secs)[f] + SumField(Tail(secs), f)

NoOverrides == [k \in {} |-> 0]
NoResults == [s \in {} |-> [sections |-> << >>, total |-> [max |-> 0, earned |-> 0]]]
NoReport == [set |-> FALSE, sid |-> 0, tot_override |-> 0,
             rows |-> [s \in {} |-> [score_llm |-> 0, score_override |-> 0, score_max |-> 0]]]

InitApp ==
    /\ apc = "idle"
    /\ executions = [s \in {} |-> {}]
    /\ gi = 0
    /\ gj = 0
    /\ per_sections = << >>
    /\ llm_results = NoResults
    /\ overrides = NoOverrides
    /\ report = NoReport
    /\ aexc = "none"
    /\ regraded = FALSE
    /\ entered = {}

\* The button "Grade all students (LLM)" is pressed: llm_results.clear() and
\* the loop over list(executions.values()) begins; overrides is left as it
\* is. executions holds, for each student tab_run stored, the section ids
\* split_sections found. What the previous script run showed is no longer on
\* the page.
GradeAllPressed ==
    /\ regraded' = (apc # "idle")
    /\ \E ex \in [Students -> SUBSET AppIds] : executions' = ex
    /\ llm_results' = NoResults
    /\ gi' = 1
    /\ gj' = 1
    /\ per_sections' = << >>
    /\ apc' = "grading"
    /\ aexc' = "none"
    /\ report' = NoReport
    /\ UNCHANGED <<overrides, entered>>
    /\ UNCHANGED notApp

\* The first press of the session.
GradeAllStart ==
    /\ apc = "idle"
    /\ GradeAllPressed

\* The button is pressed once more after a grading.
GradeAllAgain ==
    /\ apc \in {"graded", "aborted"}
    /\ ~regraded
    /\ GradeAllPressed

\* One pass of the inner loop: a section that is not in spans is skipped;
\* otherwise grade_section_llm is called and its grade appended, or the call
\* raises and ends the script run.
GradeSection ==
    /\ apc = "grading"
    /\ gi <= MaxStudents
    /\ gj <= Len(AppRubric)
    /\ LET sec == AppRubric[gj] IN
          IF sec.id \notin executions[gi]
          THEN /\ gj' = gj + 1
               /\ UNCHANGED <<per_sections, apc, aexc>>
          ELSE \/ /\ \E graded \in GradedChoices(sec) :
                        per_sections' = Append(per_sections, graded)
                  /\ gj' = gj + 1
                  /\ UNCHANGED <<apc, aexc>>
               \/ /\ aexc' = "APIError"
                  /\ apc' = "aborted"
                  /\ UNCHANGED <<per_sections, gj>>
    /\ UNCHANGED <<executions, gi, llm_results, overrides, report, regraded, entered>>
    /\ UNCHANGED notApp

\* The sections of the rubric are exhausted: the totals are summed over
\* per_sections and llm_results[sid] is stored.
FinishStudent ==
    /\ apc = "grading"
    /\ gi <= MaxStudents
    /\ gj > Len(AppRubric)
    /\ llm_results' = (gi :> [sections |-> per_sections,
                              total |-> [max |-> SumField(per_sections, "total_points"),
                                         earned |-> SumField(per_sections, "earned_points")]])
                      @@ llm_results
    /\ gi' = gi + 1
    /\ gj' = 1
    /\ per_sections' = << >>
    /\ UNCHANGED <<apc, executions, overrides, report, aexc, regraded, entered>>
    /\ UNCHANGED notApp

\* The students are exhausted.
FinishGrading ==
    /\ apc = "grading"
    /\ gi > MaxStudents
    /\ apc' = "graded"
    /\ UNCHANGED <<executions, gi, gj, per_sections, llm_results, overrides, report, aexc,
                   regraded, entered>>
    /\ UNCHANGED notApp

\* What the grader can type into the number_input of a section: nothing, or
\* a number within 0..total_points (8.0 where the section allows it, else 0).
NothingTyped == [typed |-> FALSE, v |-> 0]
WidgetInputs(sec) ==
    {NothingTyped, [typed |-> TRUE, v |-> IF 8000 <= sec.total_points THEN 8000 ELSE 0]}

\* overrides.get(key, default)
OverrideGet(ov, key, default) == IF key \in DOMAIN ov THEN ov[key] ELSE default

\* The loop over res["sections"] of the review: each widget shows
\* overrides.get(key, earned_points) unless the grader typed a number, and
\* overrides[key] is set to what it shows.
RECURSIVE ReviewSections(_, _, _, _)
ReviewSections(ov, sid, secs, inputs) ==
    IF secs = << >> THEN ov
    ELSE LET key == <<sid, Head(secs).section_id>>
             new_val == IF Head(inputs).typed
                        THEN Head(inputs).v
                        ELSE OverrideGet(ov, key, Head(secs).earned_points)
         IN  ReviewSections((key :> new_val) @@ ov, sid, Tail(secs), Tail(inputs))

\* (mutant) The aggregation reads the stored earned_points only.
RECURSIVE TotalIgnoringOverrides(_, _, _)
TotalIgnoringOverrides(ov, sid, secs) ==
    IF secs = << >> THEN 0
    ELSE Head(secs).earned_points + TotalIgnoringOverrides(ov, sid, Tail(secs))

\* total_override += float(overrides.get(key, sec["earned_points"]))
RECURSIVE TotalOverride(_, _, _)
TotalOverride(ov, sid, secs) ==
    IF secs = << >> THEN 0
    ELSE OverrideGet(ov, <<sid, Head(secs).section_id>>, Head(secs).earned_points)
         + TotalOverride(ov, sid, Tail(secs))

\* The rows of the class table of tab_reports.
ReportRows(results, ov) ==
    [s \in DOMAIN results |->
        [score_llm |-> results[s].total.earned,
         score_override |-> TotalOverride(ov, s, results[s].sections),
         score_max |-> results[s].total.max]]

\* A script run with llm_results present and no button pressed: the review of
\* the selected student sets overrides from its widgets, then tab_reports
\* builds the rows from llm_results and overrides.
Render ==
    /\ apc \in {"graded", "aborted"}
    /\ DOMAIN llm_results # {}
    /\ \E sid \in DOMAIN llm_results :
          LET secs == llm_results[sid].sections IN
          \E inputs \in {x \in [1..Len(secs) -> UNION {WidgetInputs(secs[k]) : k \in 1..Len(secs)}] :
                            \A k \in 1..Len(secs) : x[k] \in WidgetInputs(secs[k])} :
             LET ov == ReviewSections(overrides, sid, secs, inputs) IN
                /\ overrides' = ov
                /\ report' = [set |-> TRUE, sid |-> sid,
                              tot_override |-> TotalOverride(ov, sid, secs),
                              rows |-> ReportRows(llm_results, ov)]
                /\ entered' = entered \cup {<<sid, secs[k].section_id>> :
                                                k \in {j \in 1..Len(secs) : inputs[j].typed}}
    /\ UNCHANGED <<apc, executions, gi, gj, per_sections, llm_results, aexc, regraded>>
    /\ UNCHANGED notApp

NextApp ==
    \/ GradeAllStart
    \/ GradeSection
    \/ FinishStudent
    \/ FinishGrading
    \/ Render

\* ------------------------------------------- rubric_schema.py: the rubric loader
\* The most sections an uploaded rubric has.
MaxRubricSections == 2

\* RUBRIC_SCHEMA, "type": {"enum": [...]}.
RecognizedTypes == {"columns", "row_count", "stat_range", "unique_count", "null_rate",
                    "table_shape", "figure_exists", "llm_feedback"}

\* RUBRIC_SCHEMA, "id": {"pattern": "^Q\\d+$"}.
IdPattern == {"Q1", "Q2"}

\* The criteria lists, the sections and the documents an upload carries.
UploadCriteria ==
    {<<>>} \cup {<<[type |-> t, max |-> m]>> : t \in {"columns", "essay"}, m \in {-1, 2}}

UploadSections ==
    [id : {"Q1", "Q2", "X"}, points : {-1, 0, 5}, criteria : UploadCriteria]

UploadDocs == UNION {[1..n -> UploadSections] : n \in 0..MaxRubricSections}

\* validate(instance=data, schema=RUBRIC_SCHEMA): what the schema constrains.
ValidCriterion(c) == c.type \in RecognizedTypes /\ c.max >= 0

ValidSection(s) ==
    /\ s.id \in IdPattern
    /\ s.points >= 0
    /\ \A k \in 1..Len(s.criteria) : ValidCriterion(s.criteria[k])

Validate(data) == \A i \in 1..Len(data) : ValidSection(data[i])

\* The rows of the two sheets of an Excel upload.
SheetSections == UNION {[1..n -> [section_id : {"Q1", "Q2", "X"}, points : {-1, 0, 5}]] :
                        n \in 0..MaxRubricSections}

SheetCriteria == {<<>>} \cup
    {<<[section_id |-> q, type |-> t, max_points |-> m]>> :
        q \in {"Q1", "Q2"}, t \in {"columns", "essay"}, m \in {-1, 2}}

\* criteria[criteria["section_id"] == sec_id], each row made a criterion.
CriteriaOf(crit, sec_id) ==
    LET keep == SelectSeq(crit, LAMBDA c : c.section_id = sec_id)
    IN  [k \in 1..Len(keep) |-> [type |-> keep[k].type, max |-> keep[k].max_points]]

\* out["sections"] of load_rubric_excel.
ExcelDoc(secs, crit) ==
    [i \in 1..Len(secs) |->
        [id |-> secs[i].section_id, points |-> secs[i].points,
         criteria |-> CriteriaOf(crit, secs[i].section_id)]]

NoRubric == [set |-> FALSE, sections |-> <<>>]

InitRubric ==
    /\ rubric = NoRubric
    /\ rlast = "none"

\* tab_rubric: the try block around the loader and the assignment.
Load(data) ==
    IF Validate(data)
    THEN /\ rubric' = [set |-> TRUE, sections |-> data]
         /\ rlast' = "loaded"
    ELSE /\ rubric' = rubric
         /\ rlast' = "rejected"

LoadRubricJson ==
    /\ \E data \in UploadDocs : Load(data)
    /\ UNCHANGED notRubric

LoadRubricExcel ==
    /\ \E secs \in SheetSections, crit \in SheetCriteria : Load(ExcelDoc(secs, crit))
    /\ UNCHANGED notRubric

NextRubric ==
    \/ LoadRubricJson
    \/ LoadRubricExcel

\* ------------------------------------------------------- app.py: tab_run
\* The most rows the mapping has.
MaxItems == 3

\* The rows of the mapping: the student and whether files_buf holds bytes
\* for the file name.
Items == UNION {[1..n -> [sid : Students, raw : BOOLEAN]] : n \in 1..MaxItems}

NoExecutions == [s \in {} |-> {}]

InitRun ==
    /\ rpc = "idle"
    /\ items = << >>
    /\ ri = 0
    /\ rexc = "none"

\* The button is pressed: executions.clear() and the loop begins.
RunAllStart ==
    /\ rpc = "idle"
    /\ \E its \in Items : items' = its
    /\ executions' = NoExecutions
    /\ ri' = 1
    /\ rpc' = "running"
    /\ UNCHANGED rexc
    /\ UNCHANGED notRun

\* One pass of the loop. A row without bytes is skipped. Otherwise
\* run_ipynb_bytes is called: an exception it raises is not a TypeError and
\* leaves the loop; when it returns, split_sections is called with the
\* keyword rubric, which its signature does not have, and the TypeError
\* leaves the loop before executions[sid] is assigned.
RunItem ==
    /\ rpc = "running"
    /\ ri <= Len(items)
    /\ IF ~items[ri].raw
       THEN /\ ri' = ri + 1
            /\ UNCHANGED <<rpc, rexc>>
       ELSE /\ \E x \in RaiseKinds \cup {"TypeError"} : rexc' = x
            /\ rpc' = "aborted"
            /\ UNCHANGED ri
    /\ UNCHANGED <<items, executions>>
    /\ UNCHANGED notRun

\* The rows are exhausted: st.success is shown.
RunAllFinish ==
    /\ rpc = "running"
    /\ ri > Len(items)
    /\ rpc' = "done"
    /\ UNCHANGED <<items, ri, rexc, executions>>
    /\ UNCHANGED notRun

NextRun ==
    \/ RunAllStart
    \/ RunItem
    \/ RunAllFinish

Init ==
    /\ InitExec /\ InitGrade /\ InitScore /\ InitLLM /\ InitSeg /\ InitApp /\ InitRubric
    /\ InitRun

SpecExec == Init /\ [][NextExec]_vars

SpecGrade == Init /\ [][NextGrade]_vars

SpecScore == Init /\ [][NextScore]_vars

SpecLLM == Init /\ [][NextLLM]_vars

SpecSeg == Init /\ [][NextSeg]_vars

SpecApp == Init /\ [][NextApp]_vars

\* The session with a second grading.
NextRegrade ==
    \/ NextApp
    \/ GradeAllAgain

SpecRegrade == Init /\ [][NextRegrade]_vars

SpecRubric == Init /\ [][NextRubric]_vars

SpecRun == Init /\ [][NextRun]_vars

\* ---------------------------------------------------------------- claims
Done == pc \in {"returned", "raised"}

CountKind(k) == Cardinality({i \in 1..Len(runs) : runs[i].kind = k})

\* errs without the synthetic retry notice.
WithoutNotice(es) == SelectSeq(es, LAMBDA e : e # RetryNotice)

\* An error entry of the Timeout category (the retry notice is not one).
IsTimeoutErr(e) == e.ename = "CellTimeoutError" /\ e # RetryNotice

\* C1: in one call the sandbox runs at most once as the first run, at most once
\* as a timeout retry and at most once as a dependency-remediation rerun, so a
\* call performs at most three sandbox runs.
C1_RunBound ==
    /\ CountKind("first") <= 1
    /\ CountKind("retry") <= 1
    /\ CountKind("rerun") <= 1
    /\ Len(runs) <= 3

\* A call that returned after a first run, a timeout retry and a rerun.
C1_Witness ==
    /\ pc = "returned"
    /\ Len(runs) = 3
    /\ runs[2].kind = "retry"
    /\ runs[3].kind = "rerun"

\* C2: when every attempt times out and retry_on_timeout is set, the call makes
\* exactly 2 attempts and returns a result whose errors hold exactly one Timeout
\* error and the retry notice.
C2_AlwaysTimeoutReturns ==
    (/\ Done
     /\ opts.retry_on_timeout
     /\ runs # << >>
     /\ \A i \in 1..Len(runs) : runs[i].outcome = "CellTimeoutError")
    => /\ Len(runs) = 2
       /\ pc = "returned"
       /\ result.set
       /\ Len(SelectSeq(result.errs, IsTimeoutErr)) = 1
       /\ \E i \in 1..Len(result.errs) : result.errs[i] = RetryNotice

\* C3: a timeout of the sandbox is never raised to the caller of the call: a
\* call in which a run timed out still returns a result.
C3_TimeoutNeverRaised ==
    (Done /\ \E i \in 1..Len(runs) : runs[i].outcome = "CellTimeoutError")
    => (pc = "returned" /\ result.set /\ exc = "none")

C5_LastRunReflected ==
    pc = "returned" =>
        /\ result.hd = Len(runs)
        /\ WithoutNotice(result.errs) = last.captured
        /\ result.executed = last.after

\* C6: when the last run completed, ProbeResults has an entry for every probe
\* id: the value where the expression evaluated, the error marker where it
\* raised, whatever the other probes did.
C6_ProbeIsolation ==
    (/\ pc = "returned"
     /\ opts.probes # {}
     /\ runs[Len(runs)].outcome = "ok")
    => /\ DOMAIN result.probe_results = opts.probes
       /\ \A k \in opts.probes :
             result.probe_results[k] =
                IF last.evals[k] = "raise" THEN "error_marker" ELSE last.evals[k]

\* ------------------------------------------------------ claims of the graders
\* C7: every criterion grade of _score_one has 0 <= score <= max, max being the
\* maximum the rubric declares (>= 0), for every kind, args and probe value.
C7_ScoreWithinMax ==
    cur # NoCur => (0 <= cur.score /\ cur.score <= cur.max)

\* C11: evaluate emits a grade for a rubric section only if the section id is
\* in the subject's spans; a section absent from the spans adds nothing to the
\* earned and the max total.
C11_GradeOnlyIfDetected ==
    /\ section.set => section.id \in gspans
    /\ section.id \notin gspans => (total.max = 0 /\ total.earned = 0)

\* C8: every section grade of evaluate has earned = min(sum of its rows'
\* scores, max), max being the section's points when set and the sum of the
\* rows' maxima otherwise.
C8_EarnedIsMin ==
    section.set => section.earned = Min2(SumScore(section.rows), section.max)

\* C9: whatever the judgment service does (raises, returns text that is no
\* JSON, returns JSON with missing or extra fields or out-of-range scores),
\* grade_section_llm returns a grade and raises nothing.
C9_NeverRaises ==
    lpc \in {"returned", "raised"} => (lpc = "returned" /\ grade.set /\ lexc = "none")

\* C10: when the service returned text that json.loads cannot parse, the grade
\* returned has earned_points 0, every criterion score 0, total_points equal to
\* the rubric section's total, and the parse-failure note as overall comment.
C10_ParseFailureGrade ==
    (lpc = "returned" /\ content.kind \in {"garbage", "empty"})
    => /\ grade.earned_points = 0
       /\ \A i \in 1..Len(grade.criteria) : grade.criteria[i].score = 0
       /\ grade.total_points = TotalMax(lreq.rsec)
       /\ grade.overall_comment = ParseFailureNote

\* ------------------------------------------------------- claims of _score_one
Scored == cur # NoCur
ColumnsCase == Scored /\ cur.typ = "columns" /\ cur.pv.t = "list"
RequiredSeen == cur.args.required \cap cur.pv.items
RangeKinds == {"stat_range", "unique_count", "null_rate"}
DeterministicKinds ==
    {"columns", "row_count", "table_shape", "figure_exists"} \cup RangeKinds

\* C17 (as stated): for kind columns with a list probe value the score is max
\* when every required name is observed, and otherwise exactly
\* max x (required names observed / required names), the note listing the
\* missing names.
C17_ColumnsExactProportion ==
    ColumnsCase =>
        IF cur.args.required \subseteq cur.pv.items
        THEN cur.score = cur.max
        ELSE /\ cur.score * Cardinality(cur.args.required)
                   = cur.max * Cardinality(RequiredSeen)
             /\ cur.note.missing = cur.args.required \ cur.pv.items

\* C17 (amended): for kind columns with a list probe value the score is max
\* when every required name is observed, and otherwise the proportion
\* max x (observed / required) rounded to two decimals: a whole number of
\* hundredths at most half a hundredth away from the proportion; the note
\* lists the missing names.
C17_ColumnsRoundedProportion ==
    ColumnsCase =>
        IF cur.args.required \subseteq cur.pv.items
        THEN cur.score = cur.max
        ELSE LET n == Cardinality(cur.args.required)
                 d == cur.score * n - cur.max * Cardinality(RequiredSeen)
             IN  /\ cur.score % 10 = 0
                 /\ 2 * d <= 10 * n
                 /\ 2 * d >= -(10 * n)
                 /\ cur.note.tag = "Missing columns: "
                 /\ cur.note.missing = cur.args.required \ cur.pv.items

\* required = [a, b], observed = [a], max = 4 gives 2.0 and names b as missing.
C17_Witness ==
    /\ ColumnsCase
    /\ cur.args.required = {"a", "b"}
    /\ cur.pv.items = {"a"}
    /\ cur.max = 4000
    /\ cur.score = 2000
    /\ cur.note.missing = {"b"}

\* The sign of probe_val - value that each op of row_count accepts.
AcceptedSigns(op) ==
    CASE op = ">=" -> {0, 1}
      [] op = ">" -> {1}
      [] op = "==" -> {0}
      [] op = "<=" -> {-1, 0}
      [] op = "<" -> {-1}
      [] OTHER -> {}
SignOf(x) == IF x > 0 THEN 1 ELSE IF x < 0 THEN -1 ELSE 0

\* C18: for kind row_count the score is max exactly when the probe value is a
\* number and (probe value op args.value) holds for op one of >=, >, ==, <=, <;
\* it is 0 otherwise, so for any other op and for a probe value that is no
\* number.
C18_RowCountBinary ==
    (Scored /\ cur.typ = "row_count") =>
        cur.score = IF /\ cur.pv.t = "num"
                       /\ SignOf(cur.pv.n - cur.args.value) \in AcceptedSigns(cur.args.op)
                    THEN cur.max ELSE 0

\* op >=, a probe value below args.value: score 0 of a positive max.
C18_Witness ==
    /\ Scored /\ cur.typ = "row_count"
    /\ cur.args.op = ">=" /\ cur.pv.t = "num" /\ cur.pv.n < cur.args.value
    /\ cur.max > 0 /\ cur.score = 0

\* C19: for kinds stat_range, unique_count and null_rate the score is max
\* exactly when the probe value is a number within the bounds that are present,
\* and 0 with an explanatory note when it is an error marker, missing or no
\* number; the three kinds give the same score on the same args and value.
C19_RangeBinary ==
    (Scored /\ cur.typ \in RangeKinds) =>
        /\ cur.score = IF /\ cur.pv.t = "num"
                          /\ (cur.args.lo.some => cur.args.lo.v <= cur.pv.n)
                          /\ (cur.args.hi.some => cur.pv.n <= cur.args.hi.v)
                       THEN cur.max ELSE 0
        /\ (cur.pv.t = "error_marker" => cur.note.tag = "expr error: ")
        /\ (cur.pv.t \notin {"num", "error_marker"}
                => cur.note.tag = "probe failed: expected number, got ")
        /\ \A t \in RangeKinds :
              ScoreOne(t, cur.args, cur.max, cur.pv, FALSE).score = cur.score

\* A number on the lower bound of a two-sided range earns the positive max.
C19_Witness ==
    /\ Scored /\ cur.typ \in RangeKinds
    /\ cur.args.lo.some /\ cur.args.hi.some
    /\ cur.pv.t = "num" /\ cur.pv.n = cur.args.lo.v
    /\ cur.max > 0 /\ cur.score = cur.max

\* C20 (as stated): every kind that is none of the deterministic kinds scores 0
\* with the rationale "unknown criterion kind".
C20_UnknownKindRationale ==
    (Scored /\ cur.typ \notin DeterministicKinds)
    => (cur.score = 0 /\ cur.note.tag = "unknown criterion kind")

\* C20 (amended): every kind that is none of the deterministic kinds scores 0
\* for any args, max and probe value; the rationale is "LLM feedback pending."
\* for llm_feedback and "Unknown type: <kind>" for every other kind.
C20_UnknownKindZero ==
    (Scored /\ cur.typ \notin DeterministicKinds)
    => /\ cur.score = 0
       /\ IF cur.typ = "llm_feedback"
          THEN cur.note = Note("LLM feedback pending.")
          ELSE cur.note.tag = "Unknown type: " /\ cur.note.kind = cur.typ

\* An unknown kind with a positive max and a number as probe value.
C20_Witness ==
    /\ Scored /\ cur.typ = "essay"
    /\ cur.max > 0 /\ cur.pv.t = "num"
    /\ cur.score = 0 /\ cur.note.kind = "essay"

\* --------------------------------------------------- claims of split_sections
Segmented == spc = "returned"
SegLast == Len(snb) - 1
\* The number the marker pattern of the cell's type reads off cell i (-1: the
\* pattern does not match).
MarkerNum(i) ==
    LET cell == snb[i + 1] IN
    IF cell.cell_type = "markdown" THEN CellHasQMark(cell)
    ELSE IF cell.cell_type = "code" THEN CellHasQComment(cell)
    ELSE -1
\* The cells that carry a marker the pattern accepts for section id q.
MarkedFor(q) == {i \in 0..SegLast : MarkerNum(i) >= 0 /\ QId(MarkerNum(i)) = q}
MarkedIds == {QId(MarkerNum(i)) : i \in {j \in 0..SegLast : MarkerNum(j) >= 0}}
MinOf(S) == CHOOSE x \in S : \A y \in S : x <= y
\* The spans in the order of the explicit key list.
OrderedSpans == [i \in 1..Len(sres.order) |-> sres.spans[sres.order[i]]]
SpanIdxs(sp) == sp.start..sp.end

\* C13: the spans, taken in the order of the key list, are pairwise disjoint,
\* ordered by strictly increasing start, contiguous, within 0..L-1, and the
\* last one ends at L-1, for every placement of markers.
C13_SpansPartition ==
    Segmented =>
        /\ \A i, j \in 1..Len(OrderedSpans) :
              i < j => /\ SpanIdxs(OrderedSpans[i]) \cap SpanIdxs(OrderedSpans[j]) = {}
                       /\ OrderedSpans[i].start < OrderedSpans[j].start
        /\ \A i \in 1..(Len(OrderedSpans) - 1) :
              OrderedSpans[i].end = OrderedSpans[i + 1].start - 1
        /\ \A i \in 1..Len(OrderedSpans) : SpanIdxs(OrderedSpans[i]) \subseteq 0..SegLast
        /\ (OrderedSpans # << >> => OrderedSpans[Len(OrderedSpans)].end = SegLast)

\* C14: when several cells carry a marker for one section id, the span stored
\* for the id starts at the first of them, a later marker for the id does not
\* end the span in progress, and the key list holds each id at most once.
C14_FirstMarkerHonored ==
    Segmented =>
        /\ \A i, j \in 1..Len(sres.order) : i # j => sres.order[i] # sres.order[j]
        /\ \A q \in DOMAIN sres.spans :
              /\ sres.spans[q].start = MinOf(MarkedFor(q))
              /\ \A i \in MarkedFor(q) :
                    \A r \in DOMAIN sres.spans : sres.spans[r].end # i - 1 \/ i = sres.spans[q].start

\* C15: every cell that carries a marker the pattern accepts with number n and
\* is the first marker for its id starts the span keyed Q<n>; the span runs to
\* the cell before the next span's start, or to the last cell; the spans of
\* different keys share no cell.
C15_MarkerStartsSpan ==
    Segmented =>
        /\ \A q \in MarkedIds :
              /\ q \in DOMAIN sres.spans
              /\ sres.spans[q].start = MinOf(MarkedFor(q))
              /\ LET later == {sres.spans[r].start : r \in DOMAIN sres.spans} \cap
                              ((sres.spans[q].start + 1)..SegLast)
                 IN  sres.spans[q].end = IF later = {} THEN SegLast ELSE MinOf(later) - 1
        /\ \A q, r \in DOMAIN sres.spans :
              q # r => SpanIdxs(sres.spans[q]) \cap SpanIdxs(sres.spans[r]) = {}

\* The ids of the rubric handed to the call, and the narrative cells whose text
\* holds id q as a whole word.
SegRubricIds == {"Q1", "Q2"}
Mentions(q) ==
    {i \in 0..SegLast : /\ snb[i + 1].cell_type = "markdown"
                        /\ snb[i + 1].text.digits # "none"
                        /\ HeadingTitle(snb[i + 1].text.digits) = q}

\* C16: when a rubric is handed to the segmentation, the call returns spans in
\* which every rubric section id found in a narrative cell is a key, its span
\* opening at the first narrative cell that holds the id as a whole word.
C16_RubricGuidedSpans ==
    (spc # "idle" /\ srubric) =>
        /\ spc = "returned"
        /\ \A q \in SegRubricIds :
              Mentions(q) # {} =>
                 (q \in DOMAIN sres.spans /\ sres.spans[q].start = MinOf(Mentions(q)))

\* ------------------------------------------- claims of tab_grade and tab_reports
\* The score of section k of student s that the aggregation should count: the
\* override stored for (s, section) when there is one, else the earned points.
CountedScore(s, k) ==
    LET sec == llm_results[s].sections[k] IN
    IF <<s, sec.section_id>> \in DOMAIN overrides THEN overrides[<<s, sec.section_id>>]
    ELSE sec.earned_points

RECURSIVE CountedTotal(_, _)
CountedTotal(s, k) == IF k = 0 THEN 0 ELSE CountedTotal(s, k - 1) + CountedScore(s, k)

\* C12: where an override exists for (student, section) the aggregated total
\* counts the override in place of the section's earned points, and setting or
\* applying overrides leaves the stored grades (earned points, raw total)
\* unchanged.
C12_OverridePrecedence ==
    /\ [](report.set =>
            \A s \in DOMAIN llm_results :
               /\ report.rows[s].score_override = CountedTotal(s, Len(llm_results[s].sections))
               /\ report.rows[s].score_llm
                     = SumField(llm_results[s].sections, "earned_points")
               /\ report.rows[s].score_llm = llm_results[s].total.earned)
    /\ [][overrides' # overrides \/ (report'.set /\ report' # report)
             => llm_results' = llm_results]_vars

\* Student 1 has one grade of 6.0, the override 8.0 is stored for it, the
\* aggregated total is 8.0 and the stored grade is still 6.0.
C12_Witness ==
    /\ report.set
    /\ 1 \in DOMAIN llm_results
    /\ Len(llm_results[1].sections) = 1
    /\ llm_results[1].sections[1].earned_points = 6000
    /\ <<1, "Q1">> \in DOMAIN overrides
    /\ overrides[<<1, "Q1">>] = 8000
    /\ report.rows[1].score_override = 8000
    /\ llm_results[1].total.earned = 6000

\* ------------------------------------------------------ claims of the rubric loader
\* The section ids of a rubric are pairwise distinct.
DistinctIds(secs) ==
    \A i, j \in 1..Len(secs) : secs[i].id = secs[j].id => i = j

\* C21. The loader accepts a rubric only if every criterion kind is a
\* recognized kind, every maxPoints is >= 0 and the section ids are pairwise
\* distinct; a rejected upload leaves the loaded rubric as it was.
C21_LoaderFailsClosed ==
    /\ [](rubric.set =>
            /\ DistinctIds(rubric.sections)
            /\ \A i \in 1..Len(rubric.sections) :
                   \A k \in 1..Len(rubric.sections[i].criteria) :
                       /\ rubric.sections[i].criteria[k].type \in RecognizedTypes
                       /\ rubric.sections[i].criteria[k].max >= 0)
    /\ [][rlast' = "rejected" => rubric' = rubric]_vars

\* --------------------------------------------------------- claims of tab_run
\* C22. A failure while executing or segmenting one subject's document never
\* aborts the batch: the loop goes on to the later rows, and after it every
\* row that has bytes has an execution record.
C22_BatchNeverAborts ==
    /\ rpc # "aborted"
    /\ rpc = "done" =>
          \A k \in 1..Len(items) : items[k].raw => items[k].sid \in DOMAIN executions

\* ------------------------------------------- more claims of run_ipynb_bytes
\* The notebook as nbformat.reads returned it: the cells of base_nb that are
\* not synthetic, with the outputs they were loaded with.
OriginalDoc ==
    LET own == SelectSeq(heap[1].cells, LAMBDA c : c.kind # "probe")
    IN  [cells |-> [i \in 1..Len(own) |-> [own[i] EXCEPT !.out = NoOutput]]]

\* The original without the skip-tagged cells, plus one synthetic cell when
\* probes is non-empty.
ExpectedDoc ==
    LET f == Filtered(OriginalDoc, opts.skip_tags)
    IN  IF opts.probes # {} THEN AppendProbeCell(f) ELSE f

\* C23. Every call of _run_once in one call of run_ipynb_bytes (first run,
\* timeout retry, rerun after an install) is handed the original notebook
\* without the skip-tagged cells plus exactly one synthetic cell when probes
\* is non-empty, whatever skip_tags is; it carries no output or cell an
\* earlier run left.
C23_AttemptsGetFreshDoc ==
    runs # << >> => last.doc = ExpectedDoc

\* The call reached ensure_package and no rerun followed: the install failed.
HasRerun == \E i \in 1..Len(runs) : runs[i].kind = "rerun"
InstallFailed == FindMissing(errs) # "" /\ ~HasRerun /\ pc \in {"probes", "finally", "returned"}

\* errs as run_ipynb_bytes holds it after the latest run.
ErrsOfLastRun ==
    last.captured \o (IF runs[Len(runs)].kind = "retry" THEN <<RetryNotice>> ELSE << >>)

\* C24. When a ModuleNotFoundError is found and the install fails, the call
\* still returns normally, and the errors, executed notebook, html and
\* duration it returns are those of the run before the install.
C24_FailedInstallKeepsPriorRun ==
    /\ [](InstallFailed =>
            /\ exc = "none"
            /\ errs = ErrsOfLastRun
            /\ heap[executed] = last.after
            /\ hd = Len(runs)
            /\ result.set =>
                  /\ result.errs = ErrsOfLastRun
                  /\ result.executed = last.after
                  /\ result.hd = Len(runs))
    /\ [][pc = "install" /\ pc' # "rerun" =>
             pc' = "probes" /\ UNCHANGED <<executed, hd, errs, heap, exc>>]_vars
    /\ [][pc = "probes" => result'.set /\ exc' = "none"]_vars

C24_Witness ==
    /\ pc = "returned"
    /\ InstallFailed
    /\ result.set
    /\ result.errs = <<RT, MNF>>
    /\ result.hd = 1

\* The payload of the marked line of the synthetic cell of nb; {} when no
\* synthetic cell holds one.
SyntheticPayload(nb) ==
    LET idx == {i \in 1..Len(nb.cells) : nb.cells[i].kind = "probe" /\ nb.cells[i].out.t = "marked"}
    IN  IF idx = {} THEN EmptyMap ELSE nb.cells[MaxOf(idx)].out.json

\* C25. The probe results of the returned result are taken only from the
\* outputs of the synthetic cell of the executed notebook: an output of any
\* other cell never becomes the probe results, marker or not, and they are
\* empty when no probes were given or the synthetic cell printed no marked
\* line.
C25_ProbeResultsFromSyntheticCell ==
    result.set =>
        result.probe_results =
            IF opts.probes = {} THEN EmptyMap ELSE SyntheticPayload(result.executed)

\* C26. After any sequence of gradings, reviews and re-gradings: for every
\* student and section whose override widget the grader never typed into, the
\* total with overrides counts the section's current earned_points; an
\* override entry the grader did not enter never shadows a replaced grade.
C26_RegradeNotShadowed ==
    report.set =>
        \A s \in DOMAIN llm_results :
            LET secs == llm_results[s].sections IN
            /\ \A k \in 1..Len(secs) :
                  <<s, secs[k].section_id>> \notin entered
                     => OverrideGet(overrides, <<s, secs[k].section_id>>, secs[k].earned_points)
                            = secs[k].earned_points
            /\ (\A k \in 1..Len(secs) : <<s, secs[k].section_id>> \notin entered)
                  => report.rows[s].score_override = llm_results[s].total.earned

\* ----------------------------------------------- more claims of the graders
\* C27. The section id recorded in the returned grade is the rubric section id
\* the grade was requested for, whatever section id the service echoes in its
\* response.
C27_RecordedIdIsRequested ==
    grade.set => grade.section_id = lreq.section_id

====
